---- MODULE Spec2Model ----
(***************************************************************************)
(* Model of gobatch's batchImpl (batch.go): the Go/Done lifecycle, the     *)
(* doReaders fan-in with its read tasks, and doProcessors, whose elided    *)
(* body is the batch assembly engine and dispatch stage of the design.     *)
(* Channels are identified by the number of the make() that created them;  *)
(* 0 is the nil channel of a fresh batchImpl.                              *)
(***************************************************************************)
EXTENDS Integers, Sequences, FiniteSets, TLC

\* ------------------------------------------------------------------ bounds
MaxRuns == 2          \* accepted Go calls on the instance
MaxCalls == 3         \* Go calls in total
MaxK == 2             \* largest readConcurrency tried
NItems == 2           \* items every source emits before closing, single-run scenarios
FewItems == 1         \* the same, in the scenarios with several Go calls
MaxSrcErrs == 1       \* errors the sources of one run may emit in total
MaxProcErrs == 1      \* batches the processor may fail in one run
MaxReconfs == 1       \* changes of the configuration values during a run
MaxDoneCalls == 1     \* Done calls followed

Runs == 1..MaxRuns
Calls == 1..MaxCalls
Readers == 1..MaxK

VARIABLES
    running,          \* batchImpl.running
    items,            \* batchImpl.items  (channel id)
    errs,             \* batchImpl.errs   (channel id)
    done,             \* batchImpl.done   (channel id)
    src,              \* batchImpl.src    (the call that supplied it)
    proc,             \* batchImpl.proc   (the call that supplied it)
    mu,               \* batchImpl.mu     ("free" or the holder)
    readConcurrency,  \* batchImpl.readConcurrency
    values,           \* the values the Config holds (ConstantConfig.values)
    reconfigured,     \* number of times the values were replaced
    cancelled,        \* the ctx of the current run has been cancelled
    held,             \* the channels Done has returned, with the run count then
    n,                \* number of items every source emits before it closes
    budget,           \* the Go calls and accepted runs the scenario goes up to
    closedItems,      \* item channels that have been closed
    closedErrs,       \* error channels that have been closed
    closedDone,       \* done channels that have been closed
    nruns,            \* number of make() rounds so far = accepted Go calls
    ncalls,           \* number of Go calls so far
    call,             \* per Go call: position, channel, accepted run
    doReaders,        \* per run: position of doReaders and the channel it sends on
    reader,           \* per run and reader: state of read and of its source
    engine,           \* per run: state of doProcessors
    batches,          \* sealed batches of the current run, in seal order
    dispatched,       \* batches of the current run the processor has returned from
    delivered,        \* errors received by callers during the current run
    touched,          \* <<run of the task, channel id>> of every channel operation
    panicked          \* "no", or why a goroutine panicked: the process is gone

vars == <<running, items, errs, done, src, proc, mu, readConcurrency, values,
          reconfigured, cancelled, held, n, budget,
          closedItems, closedErrs, closedDone, nruns, ncalls, call,
          doReaders, reader, engine, batches, dispatched, delivered, touched,
          panicked>>

\* ------------------------------------------------------------ configuration
CV(mint, mini, maxt, maxi) ==
    [MinTime |-> mint, MinItems |-> mini, MaxTime |-> maxt, MaxItems |-> maxi]

\* The configurations tried: a max-time trigger, both minimums,
\* MinItems > MaxItems together with MinTime > MaxTime, a zero MaxItems and
\* a zero MaxTime.
Configs ==
    { CV(0, 3, 1, 4),
      CV(1, 2, 2, 4),
      CV(2, 3, 1, 2),
      CV(0, 1, 2, 0),
      CV(1, 2, 0, 3) }

\* Get with the two item thresholds taken from each other's field.
GetSwapped == [values EXCEPT !.MinItems = values.MaxItems, !.MaxItems = values.MinItems]

\* ConstantConfig.Get
Get == values

\* "If MinItems > MaxItems or MinTime > MaxTime, the min value will be set
\* to the maximum value."
Clamp(v) ==
    [MinTime  |-> IF v.MinTime > v.MaxTime THEN v.MaxTime ELSE v.MinTime,
     MinItems |-> IF v.MinItems > v.MaxItems THEN v.MaxItems ELSE v.MinItems,
     MaxTime  |-> v.MaxTime,
     MaxItems |-> v.MaxItems]

NoConfig == CV(0, 0, 0, 0)

\* The policy with rule 3 satisfied by either minimum.
SealRuleEitherMinimum(count, elapsed, snap, eof) ==
    IF count >= snap.MaxItems THEN 1
    ELSE IF elapsed >= snap.MaxTime THEN 2
    ELSE IF count >= snap.MinItems \/ elapsed >= snap.MinTime THEN 3
    ELSE IF eof /\ count > 0 THEN 4
    ELSE 5

\* The policy with rule 3 looking at the count alone.
SealRuleMinItemsOnly(count, elapsed, snap, eof) ==
    IF count >= snap.MaxItems THEN 1
    ELSE IF elapsed >= snap.MaxTime THEN 2
    ELSE IF count >= snap.MinItems THEN 3
    ELSE IF eof /\ count > 0 THEN 4
    ELSE 5

\* Sealing policy of the assembly engine: the number of the rule that
\* applies to an open batch (5 = continue accumulating).
SealRule(count, elapsed, snap, eof) ==
    IF count >= snap.MaxItems THEN 1
    ELSE IF elapsed >= snap.MaxTime THEN 2
    ELSE IF count >= snap.MinItems /\ elapsed >= snap.MinTime THEN 3
    ELSE IF eof /\ count > 0 THEN 4
    ELSE 5

\* --------------------------------------------------------------- task state
NoCall == [pc |-> "none", ch |-> 0, run |-> 0]

NoReader == [pc |-> "none", got |-> 0, egot |-> 0,
             itemsClosed |-> FALSE, errsClosed |-> FALSE, ch |-> 0]

NoEngine == [pc |-> "none", ch |-> 0, ech |-> 0, cur |-> <<>>, snap |-> NoConfig,
             open |-> NoConfig, elapsed |-> 0, eof |-> FALSE, nerr |-> 0]

NoSupervisor == [pc |-> "none", ch |-> 0]

\* What a scenario goes up to: Go calls, accepted runs, Done calls, whether
\* the caller cancels the ctx, and changes of the configuration values.
Budget(calls, runs, dones, cancel, reconfs) ==
    [calls |-> calls, runs |-> runs, dones |-> dones, cancel |-> cancel,
     reconfs |-> reconfs]

Init ==
    /\ running = FALSE
    /\ items = 0 /\ errs = 0 /\ done = 0
    /\ src = 0 /\ proc = 0
    /\ mu = "free"
    /\ readConcurrency \in 0..MaxK
    /\ \/ /\ budget = Budget(MaxCalls, MaxRuns, MaxDoneCalls, FALSE, 0)
          /\ n = FewItems
          /\ values = CV(0, 3, 1, 4)
       \/ /\ budget = Budget(1, 1, 0, FALSE, 0)
          /\ n = NItems
          /\ values \in Configs
       \/ /\ budget = Budget(2, 1, 0, TRUE, 0)
          /\ n = FewItems
          /\ values = CV(1, 2, 2, 4)
       \/ /\ budget = Budget(1, 1, 0, FALSE, MaxReconfs)
          /\ n = NItems
          /\ values \in {CV(1, 2, 2, 4), CV(0, 1, 2, 0)}
    /\ reconfigured = 0
    /\ cancelled = FALSE
    /\ held = <<>>
    /\ closedItems = {} /\ closedErrs = {} /\ closedDone = {}
    /\ nruns = 0 /\ ncalls = 0
    /\ call = [c \in Calls |-> NoCall]
    /\ doReaders = [r \in Runs |-> NoSupervisor]
    /\ reader = [r \in Runs |-> [i \in Readers |-> NoReader]]
    /\ engine = [r \in Runs |-> NoEngine]
    /\ batches = <<>>
    /\ dispatched = 0
    /\ delivered = {}
    /\ touched = {}
    /\ panicked = "no"

\* A goroutine panics: nothing of the process runs any more.
Panic(why) ==
    /\ panicked' = why
    /\ UNCHANGED <<reconfigured, cancelled, held,
                   running, items, errs, done, src, proc, mu, readConcurrency,
                   values, n, budget, closedItems, closedErrs, closedDone, nruns, ncalls,
                   call, doReaders, reader, engine, batches, dispatched, delivered, touched>>

\* The callers able to receive from error channel ch: those a Go call has
\* returned it to.
Receivers(ch) == {d \in Calls : call[d].pc = "returned" /\ call[d].ch = ch}

Err(kind, run, from, to) == [kind |-> kind, run |-> run, from |-> from, to |-> to]

\* ------------------------------------------------------------------- Go
\* Go without the test of b.running: every call starts a run.
GoAcceptNoCheck(c) ==
    /\ panicked = "no"
    /\ c = ncalls + 1 /\ c <= budget.calls
    /\ mu = "free"
    /\ nruns < budget.runs
    /\ LET id == nruns + 1 IN
        /\ running' = TRUE
        /\ items' = id /\ errs' = id /\ done' = id
        /\ src' = c /\ proc' = c
        /\ nruns' = id
        /\ doReaders' = [doReaders EXCEPT ![id] = [pc |-> "start", ch |-> 0]]
        /\ engine' = [engine EXCEPT ![id] = [NoEngine EXCEPT !.pc = "start"]]
        /\ call' = [call EXCEPT ![c] = [pc |-> "returned", ch |-> id, run |-> id]]
    /\ ncalls' = c
    /\ cancelled' = FALSE
    /\ batches' = <<>>
    /\ dispatched' = 0
    /\ delivered' = {}
    /\ UNCHANGED <<reconfigured, held,
                   mu, readConcurrency, values, n, budget, closedItems,
                   closedErrs, closedDone, reader, touched, panicked>>

\* Go making b.items and b.errs, but no b.done.
GoAcceptKeepDone(c) ==
    /\ panicked = "no"
    /\ c = ncalls + 1 /\ c <= budget.calls
    /\ mu = "free"
    /\ ~running
    /\ nruns < budget.runs
    /\ LET id == nruns + 1 IN
        /\ running' = TRUE
        /\ items' = id /\ errs' = id /\ done' = done
        /\ src' = c /\ proc' = c
        /\ nruns' = id
        /\ doReaders' = [doReaders EXCEPT ![id] = [pc |-> "start", ch |-> 0]]
        /\ engine' = [engine EXCEPT ![id] = [NoEngine EXCEPT !.pc = "start"]]
        /\ call' = [call EXCEPT ![c] = [pc |-> "returned", ch |-> id, run |-> id]]
    /\ ncalls' = c
    /\ cancelled' = FALSE
    /\ batches' = <<>>
    /\ dispatched' = 0
    /\ delivered' = {}
    /\ UNCHANGED <<reconfigured, held,
                   mu, readConcurrency, values, n, budget, closedItems, closedErrs,
                   closedDone, reader, touched, panicked>>

\* Go, batch.go:36 is false: the run is accepted (lines 41-51).
GoAccept(c) ==
    /\ panicked = "no"
    /\ c = ncalls + 1 /\ c <= budget.calls
    /\ mu = "free"
    /\ ~running
    /\ nruns < budget.runs
    /\ LET id == nruns + 1 IN
        /\ running' = TRUE
        /\ items' = id /\ errs' = id /\ done' = id
        /\ src' = c /\ proc' = c
        /\ nruns' = id
        /\ doReaders' = [doReaders EXCEPT ![id] = [pc |-> "start", ch |-> 0]]
        /\ engine' = [engine EXCEPT ![id] = [NoEngine EXCEPT !.pc = "start"]]
        /\ call' = [call EXCEPT ![c] = [pc |-> "returned", ch |-> id, run |-> id]]
    /\ ncalls' = c
    /\ cancelled' = FALSE
    /\ batches' = <<>>
    /\ dispatched' = 0
    /\ delivered' = {}
    /\ UNCHANGED <<reconfigured, held,
                   mu, readConcurrency, values, n, budget, closedItems, closedErrs,
                   closedDone, reader, touched, panicked>>

\* Go, batch.go:33-37: the lock is taken, running is true, and the call
\* starts the send of ErrConcurrentGoCalls on b.errs.
GoReject(c) ==
    /\ panicked = "no"
    /\ c = ncalls + 1 /\ c <= budget.calls
    /\ mu = "free"
    /\ running
    /\ mu' = "Go"
    /\ call' = [call EXCEPT ![c] = [pc |-> "send", ch |-> errs, run |-> 0]]
    /\ ncalls' = c
    /\ UNCHANGED <<reconfigured, cancelled, held,
                   running, items, errs, done, src, proc, readConcurrency,
                   values, n, budget, closedItems, closedErrs, closedDone, nruns,
                   doReaders, reader, engine, batches, dispatched, delivered, touched,
                   panicked>>

\* Go, batch.go:37-38: the send completes when some caller receives from the
\* channel (or panics on a closed one); then b.errs is returned and the
\* deferred Unlock runs.
GoRejectSend(c) ==
    /\ panicked = "no"
    /\ call[c].pc = "send"
    /\ IF call[c].ch \in closedErrs
       THEN Panic("send on closed channel")
       ELSE /\ \E d \in Receivers(call[c].ch) :
                 delivered' = delivered \cup {Err("concurrent", 0, <<c, 0>>, d)}
            /\ call' = [call EXCEPT ![c] = [pc |-> "returned", ch |-> errs, run |-> 0]]
            /\ mu' = "free"
            /\ UNCHANGED <<reconfigured, cancelled, held,
                           running, items, errs, done, src, proc,
                           readConcurrency, values, n, budget, closedItems, closedErrs,
                           closedDone, nruns, ncalls, doReaders, reader,
                           engine, batches, dispatched, touched, panicked>>

\* ------------------------------------------------------------ doReaders
\* The test of line 65 with >= for >.
HasReadersAlways == readConcurrency >= 0

\* batch.go:65
HasReaders == readConcurrency > 0

\* doReaders, batch.go:65-76: spawn the read tasks, or prepare the
\* "Read concurrency is 0" error.
DoReadersStart(r) ==
    /\ panicked = "no"
    /\ doReaders[r].pc = "start"
    /\ IF HasReaders
       THEN /\ doReaders' = [doReaders EXCEPT ![r] = [pc |-> "wait", ch |-> 0]]
            /\ reader' = [reader EXCEPT ![r] =
                   [i \in Readers |-> IF i <= readConcurrency
                                      THEN [NoReader EXCEPT !.pc = "select"]
                                      ELSE NoReader]]
       ELSE /\ doReaders' = [doReaders EXCEPT ![r] = [pc |-> "report", ch |-> errs]]
            /\ UNCHANGED reader
    /\ UNCHANGED <<reconfigured, cancelled, held,
                   running, items, errs, done, src, proc, mu, readConcurrency,
                   values, n, budget, closedItems, closedErrs, closedDone, nruns, ncalls,
                   call, engine, batches, dispatched, delivered, touched, panicked>>

\* doReaders, batch.go:77: b.errs <- err
DoReadersReport(r) ==
    /\ panicked = "no"
    /\ doReaders[r].pc = "report"
    /\ IF doReaders[r].ch \in closedErrs
       THEN Panic("send on closed channel")
       ELSE /\ \E d \in Receivers(doReaders[r].ch) :
                 delivered' = delivered \cup {Err("config", r, <<0, 0>>, d)}
            /\ doReaders' = [doReaders EXCEPT ![r] = [pc |-> "lock", ch |-> 0]]
            /\ touched' = touched \cup {<<r, doReaders[r].ch>>}
            /\ UNCHANGED <<reconfigured, cancelled, held,
                           running, items, errs, done, src, proc, mu,
                           readConcurrency, values, n, budget, closedItems, closedErrs,
                           closedDone, nruns, ncalls, call, reader, engine,
                           batches, dispatched, panicked>>

ReadersFinishedAny(r) == \E i \in Readers : reader[r][i].pc \in {"none", "done"}

\* wg.Wait(), batch.go:74, returns
ReadersFinished(r) == \A i \in Readers : reader[r][i].pc \in {"none", "done"}

\* doReaders closing b.items in a critical section of its own: the lock is
\* released before b.errs is closed.
DoReadersCloseItemsUnlock(r) ==
    /\ panicked = "no"
    /\ \/ doReaders[r].pc = "lock"
       \/ doReaders[r].pc = "wait" /\ ReadersFinished(r)
    /\ mu = "free"
    /\ IF items \in closedItems \/ items = 0
       THEN Panic("close of b.items")
       ELSE /\ closedItems' = closedItems \cup {items}
            /\ doReaders' = [doReaders EXCEPT ![r] = [pc |-> "closeErrs", ch |-> 0]]
            /\ touched' = touched \cup {<<r, items>>}
            /\ UNCHANGED <<reconfigured, cancelled, held,
                           running, items, errs, done, src, proc, mu,
                           readConcurrency, values, n, budget, closedErrs,
                           closedDone, nruns, ncalls, call, reader, engine,
                           batches, dispatched, delivered, panicked>>

\* doReaders, batch.go:80-81: Lock, close(b.items)
DoReadersCloseItems(r) ==
    /\ panicked = "no"
    /\ \/ doReaders[r].pc = "lock"
       \/ doReaders[r].pc = "wait" /\ ReadersFinished(r)
    /\ mu = "free"
    /\ IF items \in closedItems \/ items = 0
       THEN Panic("close of b.items")
       ELSE /\ mu' = "doReaders"
            /\ closedItems' = closedItems \cup {items}
            /\ doReaders' = [doReaders EXCEPT ![r] = [pc |-> "closeErrs", ch |-> 0]]
            /\ touched' = touched \cup {<<r, items>>}
            /\ UNCHANGED <<reconfigured, cancelled, held,
                           running, items, errs, done, src, proc,
                           readConcurrency, values, n, budget, closedErrs, closedDone,
                           nruns, ncalls, call, reader, engine, batches, dispatched,
                           delivered, panicked>>

\* doReaders, batch.go:82-83: close(b.errs), Unlock
DoReadersCloseErrs(r) ==
    /\ panicked = "no"
    /\ doReaders[r].pc = "closeErrs"
    /\ IF errs \in closedErrs \/ errs = 0
       THEN Panic("close of b.errs")
       ELSE /\ mu' = "free"
            /\ closedErrs' = closedErrs \cup {errs}
            /\ doReaders' = [doReaders EXCEPT ![r] = [pc |-> "done", ch |-> 0]]
            /\ touched' = touched \cup {<<r, errs>>}
            /\ UNCHANGED <<reconfigured, cancelled, held,
                           running, items, errs, done, src, proc,
                           readConcurrency, values, n, budget, closedItems, closedDone,
                           nruns, ncalls, call, reader, engine, batches, dispatched,
                           delivered, panicked>>

\* ----------------------------------------------------------------- read
\* The test of line 127 with || for &&.
ReaderFinishedEither(rec) == rec.itemsClosed \/ rec.errsClosed

\* batch.go:127
ReaderFinished(rec) == rec.itemsClosed /\ rec.errsClosed

\* batch.go:127-129: leave the loop, the task returns, or select again
AfterClose(rec) ==
    IF ReaderFinished(rec) THEN [rec EXCEPT !.pc = "done", !.egot = 0] ELSE rec

\* The read task receiving an item and selecting again without sending it.
ReadItemDrop(r, i) ==
    /\ panicked = "no"
    /\ reader[r][i].pc = "select"
    /\ ~reader[r][i].itemsClosed
    /\ reader[r][i].got < n
    /\ reader' = [reader EXCEPT ![r][i] =
           [@ EXCEPT !.got = @ + 1]]
    /\ UNCHANGED <<reconfigured, cancelled, held,
                   running, items, errs, done, src, proc, mu, readConcurrency,
                   values, n, budget, closedItems, closedErrs, closedDone, nruns, ncalls,
                   call, doReaders, engine, batches, dispatched, delivered, touched,
                   panicked>>

\* read, batch.go:113-115: an item arrives from the source; the task goes on
\* to send it on b.items.
ReadItem(r, i) ==
    /\ panicked = "no"
    /\ reader[r][i].pc = "select"
    /\ ~reader[r][i].itemsClosed
    /\ reader[r][i].got < n
    /\ reader' = [reader EXCEPT ![r][i] =
           [@ EXCEPT !.pc = "sendItem", !.got = @ + 1, !.ch = items]]
    /\ UNCHANGED <<reconfigured, cancelled, held,
                   running, items, errs, done, src, proc, mu, readConcurrency,
                   values, n, budget, closedItems, closedErrs, closedDone, nruns, ncalls,
                   call, doReaders, engine, batches, dispatched, delivered, touched,
                   panicked>>

\* read, batch.go:116-117: the source has emitted all its items, or its ctx
\* is cancelled, and it has closed its item stream.
ReadItemsClosed(r, i) ==
    /\ panicked = "no"
    /\ reader[r][i].pc = "select"
    /\ ~reader[r][i].itemsClosed
    /\ reader[r][i].got = n \/ cancelled
    /\ reader' = [reader EXCEPT ![r][i] = AfterClose([@ EXCEPT !.itemsClosed = TRUE])]
    /\ UNCHANGED <<reconfigured, cancelled, held,
                   running, items, errs, done, src, proc, mu, readConcurrency,
                   values, n, budget, closedItems, closedErrs, closedDone, nruns, ncalls,
                   call, doReaders, engine, batches, dispatched, delivered, touched,
                   panicked>>

\* errors the sources of run r have emitted so far: those delivered and
\* those a reader is sending
SrcErrs(r) ==
    Cardinality({e \in delivered : e.kind = "source" /\ e.run = r})
    + Cardinality({i \in Readers : reader[r][i].pc = "sendErr"})

\* read, batch.go:119-122: an error arrives from the source; the task goes
\* on to send the wrapped error on b.errs.
ReadErr(r, i) ==
    /\ panicked = "no"
    /\ reader[r][i].pc = "select"
    /\ ~reader[r][i].errsClosed
    /\ SrcErrs(r) < MaxSrcErrs
    /\ reader' = [reader EXCEPT ![r][i] =
           [@ EXCEPT !.pc = "sendErr", !.egot = @ + 1, !.ch = errs]]
    /\ UNCHANGED <<reconfigured, cancelled, held,
                   running, items, errs, done, src, proc, mu, readConcurrency,
                   values, n, budget, closedItems, closedErrs, closedDone, nruns, ncalls,
                   call, doReaders, engine, batches, dispatched, delivered, touched,
                   panicked>>

\* read, batch.go:123-124: the source closes its error stream (after as many
\* errors as it chose to emit).
ReadErrsClosed(r, i) ==
    /\ panicked = "no"
    /\ reader[r][i].pc = "select"
    /\ ~reader[r][i].errsClosed
    /\ reader' = [reader EXCEPT ![r][i] = AfterClose([@ EXCEPT !.errsClosed = TRUE])]
    /\ UNCHANGED <<reconfigured, cancelled, held,
                   running, items, errs, done, src, proc, mu, readConcurrency,
                   values, n, budget, closedItems, closedErrs, closedDone, nruns, ncalls,
                   call, doReaders, engine, batches, dispatched, delivered, touched,
                   panicked>>

\* The read task returning once it has passed an error on.
ForwardErrFatal(r, i) ==
    /\ panicked = "no"
    /\ reader[r][i].pc = "sendErr"
    /\ IF reader[r][i].ch \in closedErrs
       THEN Panic("send on closed channel")
       ELSE /\ \E d \in Receivers(reader[r][i].ch) :
                 delivered' = delivered \cup
                     {Err("source", r, <<i, reader[r][i].egot>>, d)}
            /\ reader' = [reader EXCEPT ![r][i] =
                   [@ EXCEPT !.pc = "done", !.egot = 0, !.ch = 0,
                             !.itemsClosed = TRUE, !.errsClosed = TRUE]]
            /\ touched' = touched \cup {<<r, reader[r][i].ch>>}
            /\ UNCHANGED <<reconfigured, cancelled, held, running, items, errs,
                           done, src, proc, mu, readConcurrency, values, n,
                           budget, closedItems, closedErrs, closedDone, nruns,
                           ncalls, call, doReaders, engine, batches,
                           dispatched, panicked>>

\* read, batch.go:122: b.errs <- wrappedErr
ForwardErr(r, i) ==
    /\ panicked = "no"
    /\ reader[r][i].pc = "sendErr"
    /\ IF reader[r][i].ch \in closedErrs
       THEN Panic("send on closed channel")
       ELSE /\ \E d \in Receivers(reader[r][i].ch) :
                 delivered' = delivered \cup
                     {Err("source", r, <<i, reader[r][i].egot>>, d)}
            /\ reader' = [reader EXCEPT ![r][i] = [@ EXCEPT !.pc = "select", !.ch = 0]]
            /\ touched' = touched \cup {<<r, reader[r][i].ch>>}
            /\ UNCHANGED <<reconfigured, cancelled, held,
                           running, items, errs, done, src, proc, mu,
                           readConcurrency, values, n, budget, closedItems, closedErrs,
                           closedDone, nruns, ncalls, call, doReaders, engine,
                           batches, dispatched, panicked>>

\* ------------------------------------------------- the assembly engine
\* A sealed batch as it is handed to dispatch, with the provider's values
\* and the snapshot taken when it was opened, the time it was open, the rule
\* that sealed it and whether end-of-input had been seen.
Sealed(e, rule) ==
    [items |-> e.cur, open |-> e.open, snap |-> e.snap, elapsed |-> e.elapsed,
     rule |-> rule, eof |-> e.eof]

\* The policy evaluated on the provider's values of the moment.
EvaluateLive(e, log) ==
    LET rule == SealRule(Len(e.cur), e.elapsed, Clamp(Get), e.eof) IN
    IF e.cur # <<>> /\ rule < 5
    THEN <<[e EXCEPT !.pc = "process", !.cur = <<>>], Append(log, Sealed(e, rule))>>
    ELSE <<[e EXCEPT !.pc = IF e.eof THEN "finish" ELSE "recv"], log>>

\* The policy evaluated also when no batch is open.
EvaluateEmpty(e, log) ==
    LET rule == SealRule(Len(e.cur), e.elapsed, e.snap, e.eof) IN
    IF rule < 5
    THEN <<[e EXCEPT !.pc = "process", !.cur = <<>>], Append(log, Sealed(e, rule))>>
    ELSE <<[e EXCEPT !.pc = IF e.eof THEN "finish" ELSE "recv"], log>>

\* The engine evaluates the sealing policy on its open batch: seal and go
\* to dispatch, or keep waiting. Yields <<engine state, batches>>.
Evaluate(e, log) ==
    LET rule == SealRule(Len(e.cur), e.elapsed, e.snap, e.eof) IN
    IF e.cur # <<>> /\ rule < 5
    THEN <<[e EXCEPT !.pc = "process", !.cur = <<>>], Append(log, Sealed(e, rule))>>
    ELSE <<[e EXCEPT !.pc = IF e.eof THEN "finish" ELSE "recv"], log>>

AcceptPrepend(e, item) ==
    IF e.cur = <<>>
    THEN [e EXCEPT !.cur = <<item>>, !.open = values, !.snap = Clamp(Get),
                   !.elapsed = 0]
    ELSE [e EXCEPT !.cur = <<item>> \o @]

\* An item arrives: the first item of a batch opens it with a snapshot of
\* the configuration and restarts the clock.
Accept(e, item) ==
    IF e.cur = <<>>
    THEN [e EXCEPT !.cur = <<item>>, !.open = values, !.snap = Clamp(Get),
                   !.elapsed = 0]
    ELSE [e EXCEPT !.cur = Append(@, item)]

\* doProcessors starts: it will receive from b.items.
EngineStart(r) ==
    /\ panicked = "no"
    /\ engine[r].pc = "start"
    /\ engine' = [engine EXCEPT ![r] = [@ EXCEPT !.pc = "recv", !.ch = items]]
    /\ UNCHANGED <<reconfigured, cancelled, held,
                   running, items, errs, done, src, proc, mu, readConcurrency,
                   values, n, budget, closedItems, closedErrs, closedDone, nruns, ncalls,
                   call, doReaders, reader, batches, dispatched, delivered, touched,
                   panicked>>

\* read, batch.go:115: b.items <- item, an unbuffered hand-off to the engine
\* receiving from that channel, which evaluates its policy on the arrival.
ForwardItem(r, i) ==
    /\ panicked = "no"
    /\ reader[r][i].pc = "sendItem"
    /\ IF reader[r][i].ch \in closedItems
       THEN Panic("send on closed channel")
       ELSE /\ \E q \in Runs :
                 /\ engine[q].pc = "recv"
                 /\ engine[q].ch = reader[r][i].ch
                 /\ LET res == Evaluate(Accept(engine[q], <<i, reader[r][i].got>>),
                                        batches) IN
                      /\ engine' = [engine EXCEPT ![q] = res[1]]
                      /\ batches' = res[2]
                 /\ touched' = touched \cup {<<r, reader[r][i].ch>>, <<q, engine[q].ch>>}
            /\ reader' = [reader EXCEPT ![r][i] = [@ EXCEPT !.pc = "select", !.ch = 0]]
            /\ UNCHANGED <<reconfigured, cancelled, held,
                           dispatched, running, items, errs, done, src, proc, mu,
                           readConcurrency, values, n, budget, closedItems, closedErrs,
                           closedDone, nruns, ncalls, call, doReaders,
                           delivered, panicked>>

\* The engine finds its item stream closed: end-of-input.
EngineEOF(r) ==
    /\ panicked = "no"
    /\ engine[r].pc = "recv"
    /\ engine[r].ch \in closedItems
    /\ LET res == Evaluate([engine[r] EXCEPT !.eof = TRUE], batches) IN
         /\ engine' = [engine EXCEPT ![r] = res[1]]
         /\ batches' = res[2]
    /\ touched' = touched \cup {<<r, engine[r].ch>>}
    /\ UNCHANGED <<reconfigured, cancelled, held,
                   dispatched, running, items, errs, done, src, proc, mu, readConcurrency,
                   values, n, budget, closedItems, closedErrs, closedDone, nruns, ncalls,
                   call, doReaders, reader, delivered, panicked>>

\* One unit of time passes for an open batch; the engine evaluates its
\* policy on the deadlines.
Tick(r) ==
    /\ panicked = "no"
    /\ engine[r].pc = "recv"
    /\ engine[r].cur # <<>>
    /\ LET res == Evaluate([engine[r] EXCEPT !.elapsed = @ + 1], batches) IN
         /\ engine' = [engine EXCEPT ![r] = res[1]]
         /\ batches' = res[2]
    /\ UNCHANGED <<reconfigured, cancelled, held,
                   dispatched, running, items, errs, done, src, proc, mu, readConcurrency,
                   values, n, budget, closedItems, closedErrs, closedDone, nruns, ncalls,
                   call, doReaders, reader, delivered, touched, panicked>>

\* ------------------------------------------------------------- dispatch
AfterDispatch(e) == [e EXCEPT !.pc = IF e.eof THEN "finish" ELSE "recv", !.ech = 0]

\* The processor reports success for the sealed batch.
ProcessOk(r) ==
    /\ panicked = "no"
    /\ engine[r].pc = "process"
    /\ engine' = [engine EXCEPT ![r] = AfterDispatch(@)]
    /\ dispatched' = dispatched + 1
    /\ UNCHANGED <<reconfigured, cancelled, held,
                   running, items, errs, done, src, proc, mu, readConcurrency,
                   values, n, budget, closedItems, closedErrs, closedDone, nruns, ncalls,
                   call, doReaders, reader, batches, delivered, touched,
                   panicked>>

\* The processor reports a failure; dispatch goes on to send it on b.errs.
ProcessFail(r) ==
    /\ panicked = "no"
    /\ engine[r].pc = "process"
    /\ engine[r].nerr < MaxProcErrs
    /\ engine' = [engine EXCEPT ![r] =
           [@ EXCEPT !.pc = "report", !.ech = errs, !.nerr = @ + 1]]
    /\ dispatched' = dispatched + 1
    /\ UNCHANGED <<reconfigured, cancelled, held,
                   running, items, errs, done, src, proc, mu, readConcurrency,
                   values, n, budget, closedItems, closedErrs, closedDone, nruns, ncalls,
                   call, doReaders, reader, batches, delivered, touched,
                   panicked>>

\* The processor's error is handed to a caller on the error stream.
EngineReport(r) ==
    /\ panicked = "no"
    /\ engine[r].pc = "report"
    /\ IF engine[r].ech \in closedErrs
       THEN Panic("send on closed channel")
       ELSE /\ \E d \in Receivers(engine[r].ech) :
                 delivered' = delivered \cup
                     {Err("processor", r, <<Len(batches), 0>>, d)}
            /\ engine' = [engine EXCEPT ![r] = AfterDispatch(@)]
            /\ touched' = touched \cup {<<r, engine[r].ech>>}
            /\ UNCHANGED <<reconfigured, cancelled, held,
                           running, items, errs, done, src, proc, mu,
                           readConcurrency, values, n, budget, closedItems, closedErrs,
                           closedDone, nruns, ncalls, call, doReaders, reader,
                           batches, dispatched, panicked>>

\* doProcessors finishing without taking the lock.
DoProcessorsFinishNoLock(r) ==
    /\ panicked = "no"
    /\ engine[r].pc = "finish"
    /\ IF done \in closedDone \/ done = 0
       THEN Panic("close of b.done")
       ELSE /\ running' = FALSE
            /\ closedDone' = closedDone \cup {done}
            /\ engine' = [engine EXCEPT ![r] = [NoEngine EXCEPT !.pc = "done"]]
            /\ touched' = touched \cup {<<r, done>>}
            /\ UNCHANGED <<reconfigured, cancelled, held,
                           items, errs, done, src, proc, mu, readConcurrency,
                           values, n, budget, closedItems, closedErrs, nruns,
                           ncalls, call, doReaders, reader, batches,
                           dispatched, delivered, panicked>>

\* doProcessors, batch.go:94-97: Lock, running = false, close(b.done), Unlock
DoProcessorsFinish(r) ==
    /\ panicked = "no"
    /\ engine[r].pc = "finish"
    /\ mu = "free"
    /\ IF done \in closedDone \/ done = 0
       THEN Panic("close of b.done")
       ELSE /\ running' = FALSE
            /\ closedDone' = closedDone \cup {done}
            /\ engine' = [engine EXCEPT ![r] = [NoEngine EXCEPT !.pc = "done"]]
            /\ touched' = touched \cup {<<r, done>>}
            /\ UNCHANGED <<reconfigured, cancelled, held,
                           items, errs, done, src, proc, mu, readConcurrency,
                           values, n, budget, closedItems, closedErrs, nruns, ncalls,
                           call, doReaders, reader, batches, dispatched, delivered,
                           panicked>>

\* ------------------------------------------------------ the environment
\* The caller cancels the ctx it gave to Go (batch.go:32, 62, 88).
Cancel ==
    /\ panicked = "no"
    /\ budget.cancel
    /\ running /\ ~cancelled
    /\ cancelled' = TRUE
    /\ UNCHANGED <<running, items, errs, done, src, proc, mu, readConcurrency,
                   values, reconfigured, held, n, budget, closedItems,
                   closedErrs, closedDone, nruns, ncalls, call, doReaders,
                   reader, engine, batches, dispatched, delivered, touched,
                   panicked>>

\* The values a Config is changed to.
Reconfigured(v) == IF v = CV(1, 2, 2, 4) THEN CV(0, 1, 2, 0) ELSE CV(1, 2, 2, 4)

\* The Config's values are modified during batch processing, while a batch
\* is accumulating.
Reconfigure ==
    /\ panicked = "no"
    /\ reconfigured < budget.reconfs
    /\ \E r \in Runs : engine[r].pc = "recv" /\ engine[r].cur # <<>>
    /\ values' = Reconfigured(values)
    /\ reconfigured' = reconfigured + 1
    /\ UNCHANGED <<running, items, errs, done, src, proc, mu, readConcurrency,
                   cancelled, held, n, budget, closedItems, closedErrs,
                   closedDone, nruns, ncalls, call, doReaders, reader, engine,
                   batches, dispatched, delivered, touched, panicked>>

\* Done, batch.go:54-58: under the lock, return b.done.
DoneCall ==
    /\ panicked = "no"
    /\ Len(held) < budget.dones
    /\ mu = "free"
    /\ held' = Append(held, [ch |-> done, at |-> nruns])
    /\ UNCHANGED <<running, items, errs, done, src, proc, mu, readConcurrency,
                   values, reconfigured, cancelled, n, budget, closedItems,
                   closedErrs, closedDone, nruns, ncalls, call, doReaders,
                   reader, engine, batches, dispatched, delivered, touched,
                   panicked>>

\* -------------------------------------------------------- specification
Next ==
    \/ \E c \in Calls : GoAccept(c)
    \/ \E c \in Calls : GoReject(c)
    \/ \E c \in Calls : GoRejectSend(c)
    \/ \E r \in Runs : DoReadersStart(r)
    \/ \E r \in Runs : DoReadersReport(r)
    \/ \E r \in Runs : DoReadersCloseItems(r)
    \/ \E r \in Runs : DoReadersCloseErrs(r)
    \/ \E r \in Runs, i \in Readers : ReadItem(r, i)
    \/ \E r \in Runs, i \in Readers : ReadItemsClosed(r, i)
    \/ \E r \in Runs, i \in Readers : ReadErr(r, i)
    \/ \E r \in Runs, i \in Readers : ReadErrsClosed(r, i)
    \/ \E r \in Runs, i \in Readers : ForwardErr(r, i)
    \/ \E r \in Runs, i \in Readers : ForwardItem(r, i)
    \/ \E r \in Runs : EngineStart(r)
    \/ \E r \in Runs : EngineEOF(r)
    \/ \E r \in Runs : Tick(r)
    \/ \E r \in Runs : ProcessOk(r)
    \/ \E r \in Runs : ProcessFail(r)
    \/ \E r \in Runs : EngineReport(r)
    \/ \E r \in Runs : DoProcessorsFinish(r)
    \/ Cancel
    \/ Reconfigure
    \/ DoneCall

Spec == Init /\ [][Next]_vars

\* ================================================================ claims
\* The tasks of run r that are still alive.
Alive(r) ==
    \/ doReaders[r].pc \notin {"none", "done"}
    \/ \E i \in Readers : reader[r][i].pc \notin {"none", "done"}
    \/ engine[r].pc \notin {"none", "done"}

\* Ingestion and dispatch of run r have both drained: every reader and
\* doReaders have returned, both shared streams are closed, no batch is open
\* and every sealed batch has come back from the processor.
RunDrained(r) ==
    /\ ReadersFinished(r)
    /\ doReaders[r].pc = "done"
    /\ r \in closedItems /\ r \in closedErrs
    /\ engine[r].cur = <<>>
    /\ dispatched = Len(batches)

\* The run r has completed: RunState is back to Idle after it.
Completed(r) == r <= nruns /\ (r < nruns \/ ~running)

RECURSIVE Flat(_)
Flat(log) == IF log = <<>> THEN <<>> ELSE Head(log).items \o Flat(Tail(log))

Range(q) == {q[k] : k \in DOMAIN q}

\* the items the sources of the run emit
AllItems == {<<i, k>> : i \in 1..readConcurrency, k \in 1..n}

Kind(k) == {e \in delivered : e.kind = k}

\* C1: no task ever sends on a stream that has already been closed: not a
\* reader forwarding an item or an error, not doReaders reporting the
\* configuration error, not doProcessors reporting a processor error, and
\* not a Go call rejected while a run is Running.
C1_NoSendOnClosed ==
    /\ \A c \in Calls : call[c].pc = "send" => call[c].ch \notin closedErrs
    /\ \A r \in Runs : engine[r].pc = "report" => engine[r].ech \notin closedErrs
    /\ \A r \in Runs : doReaders[r].pc = "report" => doReaders[r].ch \notin closedErrs
    /\ \A r \in Runs, i \in Readers :
          /\ reader[r][i].pc = "sendItem" => reader[r][i].ch \notin closedItems
          /\ reader[r][i].pc = "sendErr" => reader[r][i].ch \notin closedErrs

\* C2: the concurrent-start error of a Go call made while Running reaches
\* the caller of that call, on the stream returned to it: no other caller
\* receives it.
C2_ErrorOnSecondCallersStream ==
    \A e \in Kind("concurrent") : e.to = e.from[1]

\* C3: a Go call rejected while Running changes none of running, items,
\* errs, done, src and proc, spawns no task, and adds nothing to what the
\* caller of the active run observes on its error stream.
C3_RejectedGoDoesNotDisturb ==
    /\ [](\A e \in delivered : call[e.to].run # 0 => e.kind # "concurrent")
    /\ [][(ncalls' # ncalls /\ running) =>
            /\ UNCHANGED <<running, items, errs, done, src, proc>>
            /\ UNCHANGED <<doReaders, reader, engine>>]_vars

\* C4: a Go call made while Running never waits for another task to
\* receive from the error stream: the controller lock is never held by a
\* call that is waiting on the stream hand-off.
C4_RejectedGoReturnsImmediately ==
    \A c \in Calls : ~(call[c].pc = "send" /\ mu = "Go")

\* C5: the done channel of every accepted run is closed exactly when that
\* run has completed (RunState back to Idle), it is closed by a step that
\* finds it open and takes RunState from Running to Idle, and at that step
\* ingestion and dispatch of the run have both drained.
C5_DoneOnce ==
    /\ [](\A r \in Runs : r \in closedDone <=> Completed(r))
    /\ [][\A r \in Runs : (r \in closedDone') /\ (r \notin closedDone) =>
            /\ running /\ ~running'
            /\ done = r
            /\ RunDrained(r)]_vars
    /\ [](panicked # "close of b.done")

C5_Witness ==
    /\ nruns = 1 /\ ~running /\ 1 \in closedDone
    /\ readConcurrency = 2 /\ Len(batches) >= 2

\* C6: RunState is Idle at construction, becomes Running exactly in the
\* step that accepts a Go call, returns to Idle only when all readers of
\* the run have finished, the shared streams are closed and every sealed
\* batch has been dispatched, and tasks of two runs are never alive at once.
C6_RunState ==
    /\ ~running
    /\ [][(~running /\ running') <=> nruns' = nruns + 1]_vars
    /\ [][nruns' # nruns =>
            /\ ncalls' = ncalls + 1
            /\ call'[ncalls'].run = nruns']_vars
    /\ [][(running /\ ~running') => RunDrained(nruns)]_vars
    /\ [](\A r1, r2 \in Runs : r1 # r2 => ~(Alive(r1) /\ Alive(r2)))

C6_Witness ==
    /\ nruns = 2 /\ running
    /\ Alive(2) /\ ~Alive(1)
    /\ \E i \in Readers : reader[2][i].pc = "sendItem"

\* C7: a Go call after a completed run is accepted with freshly made,
\* open item, error and done streams, and every channel operation of a
\* task (send, receive or close) is on a stream of the task's own run.
C7_FreshStreams ==
    /\ [](\A t \in touched : t[1] = t[2])
    /\ [](nruns >= 1 /\ ~running => mu = "free" /\ \A r \in Runs : ~Alive(r))
    /\ [][nruns' # nruns =>
            /\ items' \notin {items, errs, done} /\ items' \notin 0..nruns
            /\ errs' = items' /\ done' = items'
            /\ items' \notin closedItems'
            /\ errs' \notin closedErrs'
            /\ done' \notin closedDone'
            /\ \A t \in touched' : t[2] # items']_vars

C7_Witness ==
    /\ nruns = 2 /\ ~running
    /\ <<1, 1>> \in touched /\ <<2, 2>> \in touched
    /\ Len(batches) >= 1
    /\ closedDone = {1, 2}

\* C8: with readConcurrency = 0 no read task is ever started and no item is
\* forwarded or sealed; the configuration error is delivered at most once,
\* and exactly once before doReaders closes the streams of the run; a
\* completed run has delivered it and closed its streams.
C8_ZeroConcurrency ==
    readConcurrency = 0 =>
        /\ \A r \in Runs, i \in Readers : reader[r][i] = NoReader
        /\ batches = <<>> /\ \A r \in Runs : engine[r].cur = <<>>
        /\ Cardinality(Kind("config")) <= 1
        /\ \A e \in Kind("config") : e.run = nruns
        /\ \A e \in delivered : e.kind # "source"
        /\ (nruns >= 1 /\ doReaders[nruns].pc \in {"lock", "closeErrs", "done"})
              => Cardinality(Kind("config")) = 1
        /\ (nruns >= 1 /\ doReaders[nruns].pc \in {"start", "report"})
              => /\ Kind("config") = {}
                 /\ nruns \notin closedItems /\ nruns \notin closedErrs
        /\ (nruns >= 1 /\ ~running)
              => /\ nruns \in closedItems /\ nruns \in closedErrs
                 /\ nruns \in closedDone

C8_Witness ==
    /\ readConcurrency = 0
    /\ nruns >= 1 /\ ~running
    /\ Cardinality(Kind("config")) = 1
    /\ nruns \in closedDone

\* C9: the items in the sealed batches are items the sources emitted, none
\* twice; when a run with readConcurrency >= 1 whose sources each emitted
\* their n items and no error has completed, they are exactly the
\* readConcurrency * n items.
C9_NoLossNoDuplication ==
    LET flat == Flat(batches) IN
    /\ Range(flat) \subseteq AllItems
    /\ \A a, b \in DOMAIN flat : a # b => flat[a] # flat[b]
    /\ (/\ readConcurrency >= 1 /\ nruns >= 1 /\ ~running
        /\ Kind("source") = {}
        /\ \A i \in 1..readConcurrency : reader[nruns][i].got = n)
          => /\ Len(flat) = readConcurrency * n
             /\ Range(flat) = AllItems

C9_Witness ==
    /\ readConcurrency = 2 /\ n = 2
    /\ nruns = 1 /\ ~running
    /\ Kind("source") = {}
    /\ Len(Flat(batches)) = 4
    /\ Len(batches) >= 2
    /\ batches[1].items[1][1] = 2

\* C10 as stated: whatever the configuration, no sealed batch holds more
\* items than the effective MaxItems.
C10_NeverAboveMaxItems ==
    \A k \in DOMAIN batches : Len(batches[k].items) <= Clamp(batches[k].open).MaxItems

\* C10 amended: under every configuration whose MaxItems is at least 1,
\* also with MinItems > MaxItems, no sealed batch holds more than MaxItems
\* items, and a batch the engine keeps open holds fewer than MaxItems.
C10_NeverAboveMaxItemsFromOne ==
    /\ \A k \in DOMAIN batches :
          batches[k].open.MaxItems >= 1
             => Len(batches[k].items) <= Clamp(batches[k].open).MaxItems
    /\ \A r \in Runs :
          (engine[r].pc = "recv" /\ engine[r].cur # <<>> /\ engine[r].open.MaxItems >= 1)
             => Len(engine[r].cur) < Clamp(engine[r].open).MaxItems

C10_Witness ==
    \E k \in DOMAIN batches :
        /\ batches[k].open.MinItems > batches[k].open.MaxItems
        /\ batches[k].open.MaxItems >= 1
        /\ Len(batches[k].items) = batches[k].open.MaxItems
        /\ batches[k].rule = 1
        /\ batches[k].elapsed = 0

\* A sealed batch is below a configured minimum.
BelowMinimums(b) ==
    \/ Len(b.items) < Clamp(b.open).MinItems
    \/ b.elapsed < Clamp(b.open).MinTime

\* C11 as stated: every batch sealed below a minimum (count below effective
\* MinItems or elapsed time below effective MinTime) was sealed after
\* end-of-input had been signaled.
C11_BelowMinimumsOnlyAtEndOfInput ==
    \A k \in DOMAIN batches : BelowMinimums(batches[k]) => batches[k].eof

\* C11 amended: a batch sealed below a minimum had reached effective
\* MaxItems or effective MaxTime, or was sealed after end-of-input had been
\* signaled.
C11_BelowMinimumsOnlyAtMaximumOrEndOfInput ==
    \A k \in DOMAIN batches :
        BelowMinimums(batches[k]) =>
            \/ Len(batches[k].items) >= Clamp(batches[k].open).MaxItems
            \/ batches[k].elapsed >= Clamp(batches[k].open).MaxTime
            \/ batches[k].eof

C11_Witness ==
    \E k \in DOMAIN batches :
        /\ BelowMinimums(batches[k])
        /\ batches[k].eof /\ batches[k].rule = 4
        /\ Len(batches[k].items) < Clamp(batches[k].open).MaxItems
        /\ batches[k].elapsed < Clamp(batches[k].open).MaxTime

\* C12: a batch sealed below effective MaxItems and effective MaxTime and
\* before end-of-input has count >= effective MinItems and elapsed time >=
\* effective MinTime; a batch that has reached MinItems stays open while
\* MinTime has not elapsed, and no batch stays open once both hold.
C12_BothMinimums ==
    /\ \A k \in DOMAIN batches :
          LET b == batches[k]
              c == Clamp(b.open) IN
          (Len(b.items) < c.MaxItems /\ b.elapsed < c.MaxTime /\ ~b.eof)
             => (Len(b.items) >= c.MinItems /\ b.elapsed >= c.MinTime)
    /\ \A r \in Runs :
          LET c == Clamp(engine[r].open) IN
          (engine[r].pc = "recv" /\ engine[r].cur # <<>>)
             => ~(Len(engine[r].cur) >= c.MinItems /\ engine[r].elapsed >= c.MinTime)

\* A batch sealed by rule 3 when MinTime elapsed, and the next one open with
\* MinItems reached before MinTime.
C12_Witness ==
    /\ Len(batches) >= 1
    /\ batches[1].rule = 3
    /\ batches[1].snap.MinTime >= 1
    /\ batches[1].elapsed = batches[1].snap.MinTime
    /\ Len(batches[1].items) >= batches[1].snap.MinItems
    /\ \E r \in Runs :
          /\ engine[r].pc = "recv"
          /\ engine[r].cur # <<>>
          /\ Len(engine[r].cur) >= engine[r].snap.MinItems
          /\ engine[r].elapsed < engine[r].snap.MinTime

\* C16: no batch without items is ever sealed or handed to the processor,
\* under any configuration, a zero MaxItems or MaxTime included, and when
\* the end of input arrives while no batch is open.
C16_NoEmptyBatch ==
    /\ \A k \in DOMAIN batches : Len(batches[k].items) >= 1
    /\ dispatched <= Len(batches)
    /\ \A r \in Runs : engine[r].pc = "process" => dispatched < Len(batches)

\* A run under MaxItems = 0 has completed: each item was sealed on arrival
\* and the end of input came while no batch was open.
C16_Witness ==
    /\ values.MaxItems = 0 /\ reconfigured = 0
    /\ nruns = 1 /\ ~running
    /\ Len(batches) = 2
    /\ ~batches[2].eof
    /\ dispatched = 2
\* the items the engine of the current run has been handed, in order: those
\* of the sealed batches, then those of the open batch
Pipeline ==
    Flat(batches) \o (IF nruns >= 1 THEN engine[nruns].cur ELSE <<>>)

\* C17: the items of one reader reach the engine and the sealed batches in
\* the order its source emitted them; items of different readers interleave.
C17_ReaderOrder ==
    \A a, b \in DOMAIN Pipeline :
        (a < b /\ Pipeline[a][1] = Pipeline[b][1]) => Pipeline[a][2] < Pipeline[b][2]

\* Two readers' items interleaved in the batches of a completed run.
C17_Witness ==
    /\ readConcurrency = 2 /\ n = 2
    /\ nruns = 1 /\ ~running
    /\ Flat(batches) = << <<2, 1>>, <<1, 1>>, <<2, 2>>, <<1, 2>> >>
    /\ Len(batches) = 2
\* the items of reader i among those handed to the engine of the current run
Forwarded(i) == {a \in DOMAIN Pipeline : Pipeline[a][1] = i}

\* C18: doReaders closes b.items and b.errs only when every read task of
\* the run has returned; a read task returns only after it has seen both
\* streams of its source closed, cancelled or not, and by then every item
\* its source emitted has been handed on.
C18_FanInClosesLast ==
    /\ \A r \in Runs :
           (r \in closedItems \/ r \in closedErrs) =>
               \A i \in 1..readConcurrency : reader[r][i].pc = "done"
    /\ \A r \in Runs, i \in Readers :
           reader[r][i].pc = "done" =>
               reader[r][i].itemsClosed /\ reader[r][i].errsClosed
    /\ \A i \in 1..readConcurrency :
           (nruns >= 1 /\ reader[nruns][i].pc = "done") =>
               Cardinality(Forwarded(i)) = reader[nruns][i].got

\* A cancelled run with two readers: one source closed after one item, the
\* other after none, and the shared streams were closed after that.
C18_Witness ==
    /\ cancelled /\ readConcurrency = 2
    /\ 1 \in closedItems /\ 1 \in closedErrs
    /\ reader[1][1].got = 1 /\ reader[1][2].got = 0
    /\ Len(Pipeline) = 1
\* C19: an error of a source is handed, marked as a source error, to a
\* caller on b.errs; the step that delivers it leaves the run running and
\* not cancelled, the sending reader back at its select and the other
\* readers as they were; a run that delivered source errors and whose
\* sources emitted their n items seals all of them.
C19_SourceErrorNonFatal ==
    /\ [][\A r \in Runs, i \in Readers :
            (reader[r][i].pc = "sendErr" /\ reader'[r][i].pc # "sendErr") =>
                /\ \E e \in delivered' \ delivered :
                       e.kind = "source" /\ e.run = r /\ e.from[1] = i
                /\ reader'[r][i].pc = "select"
                /\ reader'[r][i].got = reader[r][i].got
                /\ \A j \in Readers \ {i} : reader'[r][j] = reader[r][j]
                /\ running' = running /\ cancelled' = cancelled
                /\ engine' = engine
                /\ panicked' = "no"]_vars
    /\ [](\A r \in Runs, i \in Readers :
            reader[r][i].pc = "sendErr" => running /\ r \notin closedErrs)
    /\ []((/\ nruns >= 1 /\ ~running /\ Kind("source") # {}
           /\ \A i \in 1..readConcurrency : reader[nruns][i].got = n)
              => Range(Flat(batches)) = AllItems)

\* A run of two readers has completed: a source error of reader 1 was
\* delivered and all four items are in the sealed batches.
C19_Witness ==
    /\ readConcurrency = 2 /\ n = 2
    /\ nruns = 1 /\ ~running
    /\ \E e \in Kind("source") : e.from[1] = 1
    /\ Len(Flat(batches)) = 4
\* C20: a channel Done returned before the first accepted Go is the nil
\* channel, which is never closed, whatever runs complete later; a channel
\* Done returned after a Go was accepted is the done channel of the latest
\* accepted run, closed exactly when that run has completed.
C20_DoneBeforeGo ==
    /\ 0 \notin closedDone
    /\ \A k \in DOMAIN held :
           /\ held[k].at = 0 => held[k].ch = 0
           /\ held[k].at >= 1 =>
                  /\ held[k].ch = held[k].at
                  /\ held[k].ch \in closedDone <=> Completed(held[k].at)

\* Done was called before any Go, and two runs have completed since.
C20_Witness ==
    /\ held # <<>> /\ held[1].at = 0
    /\ nruns = 2 /\ ~running
    /\ closedDone = {1, 2}
\* C15: a batch is sealed on the snapshot of the configuration taken when
\* it was opened: the snapshot is the provider's values at the arrival of
\* the batch's first item, it does not change while the batch accumulates,
\* whatever the provider returns meanwhile, every sealed batch was sealed by
\* the rule its snapshot gives, and an open batch waits exactly while its
\* snapshot gives none.
C15_SnapshotAtOpen ==
    /\ [](\A k \in DOMAIN batches :
            /\ batches[k].snap = Clamp(batches[k].open)
            /\ batches[k].rule = SealRule(Len(batches[k].items), batches[k].elapsed,
                                          Clamp(batches[k].open), batches[k].eof))
    /\ [](\A r \in Runs :
            (engine[r].pc = "recv" /\ engine[r].cur # <<>>) =>
                /\ engine[r].snap = Clamp(engine[r].open)
                /\ SealRule(Len(engine[r].cur), engine[r].elapsed,
                            Clamp(engine[r].open), engine[r].eof) = 5)
    /\ [][\A r \in Runs :
            /\ (engine[r].cur # <<>> /\ engine'[r].cur # <<>>) =>
                   engine'[r].open = engine[r].open
            /\ (engine[r].cur = <<>> /\ engine'[r].cur # <<>>) =>
                   engine'[r].open = values
            /\ (r = nruns /\ Len(batches') = Len(batches) + 1) =>
                   batches'[Len(batches')].open =
                       IF engine[r].cur # <<>> THEN engine[r].open ELSE values]_vars

\* The values changed from CV(1, 2, 2, 4) to CV(0, 1, 2, 0) while the first
\* batch held one item: it went on to two items and its MinTime, where the
\* new values would have sealed it at once; the next batch was opened and
\* sealed at one item under the new values.
C15_Witness ==
    /\ reconfigured = 1 /\ values = CV(0, 1, 2, 0)
    /\ Len(batches) >= 2
    /\ batches[1].open = CV(1, 2, 2, 4)
    /\ Len(batches[1].items) = 2 /\ batches[1].rule = 3
    /\ batches[2].open = CV(0, 1, 2, 0)
    /\ Len(batches[2].items) = 1 /\ batches[2].rule = 1
\* C13: no item is stranded. An open batch whose item stream has been
\* closed is eventually sealed and dispatched, so the program is still
\* running at every moment such a batch is waiting for its flush.
C13_NoItemStranded ==
    \A r \in Runs :
        (engine[r].pc = "recv" /\ engine[r].cur # <<>> /\ engine[r].ch \in closedItems)
            => panicked = "no"

\* C14: a cancelled run whose sources have closed their streams eventually
\* flushes, finishes dispatch, returns to Idle and closes b.done, so the
\* program is still running for as long as such a run has not completed.
C14_CancelledRunCompletes ==
    (/\ cancelled /\ running /\ readConcurrency >= 1
     /\ \A i \in 1..readConcurrency : reader[nruns][i].pc = "done")
        => panicked = "no"

====
